---- MODULE Spec2Model ----
(***************************************************************************)
(* A model of data_helper (src/data_helper/__init__.py): dataset snapshots *)
(* kept as JSON manifests in a blob container.                             *)
(*                                                                         *)
(* Representation.  A file or directory name is the sequence of its        *)
(* dot-separated components ("a.png" is <<"a", "png">>), a path or blob     *)
(* name is the sequence of its "/"-separated names ("train/a.png" is       *)
(* << <<"train">>, <<"a", "png">> >>).  The container and the local         *)
(* directories are functions from paths to contents.                       *)
(***************************************************************************)
EXTENDS Integers, Sequences, FiniteSets, TLC

VARIABLES
    config,   \* TRUE when ~/.data_helper_config.json holds both settings
    blobs,    \* the container: blob name -> content
    local,    \* the dataset directory: relative path of a file -> content
    dest,     \* the destination directory of recreate_dataset
    clock,    \* the number of datetime.now() readings so far
    out,      \* what the last command printed / returned
    pc,       \* per concurrent caller of create_snapshot: its position
    cs        \* per concurrent caller of create_snapshot: its locals

vars == <<config, blobs, local, dest, clock, out, pc, cs>>

----------------------------------------------------------------------------
(* Bounds *)

\* datetime.now() is read at most MaxClock times in a behaviour
MaxClock == 2

\* a scanned dataset directory holds at most MaxScanFiles files
MaxScanFiles == 4

\* at most MaxDownloadFailures files fail to open or download in one run of recreate_dataset
MaxDownloadFailures == 1

\* at most MaxUploadFailures files fail to upload in one run of upload_folder_to_blob
MaxUploadFailures == 1

----------------------------------------------------------------------------
(* Names and paths *)

Name(str) == <<str>>

\* the value of input(...).strip() when nothing but blanks was typed
EmptyName == <<"">>

\* os.path.basename(dataset_path): the dataset directory is ./foo
FolderName == Name("foo")

\* the dataset names typed at the prompt
DatasetNames == {Name("foo")}

\* the snapshot names given on the command line
SnapshotNames == {Name("foo"), Name("v1")}

\* the three fixed splits, in the order of the loop and of the dict literal
Splits == <<"train", "val", "test">>

SplitNames == {Splits[i] : i \in 1..Len(Splits)}

File(dir, stem, ext) == <<Name(dir), <<stem, ext>>>>

\* the files of the dataset directory in the sessions that only use the container
StoredFiles == {File("train", "a", "png"), File("val", "b", "png")}

\* the files of the dataset directory in the sessions that recreate it
LocalFiles == {File("train", "a", "png"), File("train", "a", "txt"),
               File("val", "b", "png")}

\* the files a scanned dataset directory may hold: images, annotations, names with
\* two extensions, a file of another type, an image below a subdirectory and a
\* directory named like an image
ScanFiles == {File("train", "a", "png"), File("train", "a", "txt"),
              File("val", "b", "png"),
              <<Name("train"), <<"a", "png", "png">>>>,
              <<Name("train"), <<"a", "png", "txt">>>>,
              <<Name("train"), <<"a", "txt", "txt">>>>,
              File("train", "notes", "md"),
              <<Name("train"), Name("sub"), <<"c", "png">>>>,
              <<Name("val"), <<"d", "png">>, <<"x", "txt">>>>}

\* os.path.basename(path) / blob.name.split("/")[-1]
basename(path) == path[Len(path)]

\* path starts with prefix and names something below it
Under(prefix, path) ==
    /\ Len(path) > Len(prefix)
    /\ SubSeq(path, 1, Len(prefix)) = prefix

\* os.path.relpath(path, start) for a path below start
relpath(path, start) == SubSeq(path, Len(start) + 1, Len(path))

----------------------------------------------------------------------------
(* Contents *)

\* the bytes of a data file first found at path p
DataOf(p) == [kind |-> "data", src |-> p]

\* a file that was opened for writing and holds nothing yet
EmptyContent == [kind |-> "empty"]

\* json.dump(value, file): the text of the value
json_dump(value) == [kind |-> "json", value |-> value]

\* json.loads(content) succeeds
json_ok(content) == content.kind = "json"

\* json.loads(content)
json_loads(content) == content.value

----------------------------------------------------------------------------
(* Functions as maps *)

EmptyMap == [x \in {} |-> {}]

MapPut(m, k, v) == [x \in DOMAIN m \cup {k} |-> IF x = k THEN v ELSE m[x]]

MapDrop(m, ks) == [x \in DOMAIN m \ ks |-> m[x]]

\* m, then every key of n with n's value
MapMerge(m, n) == [x \in DOMAIN m \cup DOMAIN n |-> IF x \in DOMAIN n THEN n[x] ELSE m[x]]

\* container_client.list_blobs(name_starts_with = prefix + "/")
list_blobs(prefix) == {k \in DOMAIN blobs : Under(prefix, k)}

----------------------------------------------------------------------------
(* The local file system, as os.walk, os.listdir and os.path see it *)

\* the relative paths os.walk(dataset_path) yields, "/"-joined
walk(fs) == DOMAIN fs

\* os.listdir(os.path.join(dataset_path, split))
listdir(fs, split) == {relpath(q, <<Name(split)>>)[1] : q \in {k \in DOMAIN fs : Under(<<Name(split)>>, k)}}

isfile(fs, path) == path \in DOMAIN fs

isdir(fs, path) == \E q \in DOMAIN fs : Under(path, q)

exists(fs, path) == isfile(fs, path) \/ isdir(fs, path)

\* the orders in which a directory listing may enumerate the names of S
RECURSIVE Orders(_)
Orders(S) ==
    IF S = {} THEN {<<>>}
    ELSE UNION {{<<x>> \o rest : rest \in Orders(S \ {x})} : x \in S}

\* file.endswith(".png")
endswith_png(file) == Len(file) >= 2 /\ file[Len(file)] = "png"

\* file.replace(".png", ".txt"): every occurrence of ".png" in the name
replace_png_txt(file) ==
    [i \in 1..Len(file) |-> IF i > 1 /\ file[i] = "png" THEN "txt" ELSE file[i]]

----------------------------------------------------------------------------
(* check_dataset_exists *)

\* the check with any() where the code has all(): one present file is enough
check_any_present(fs) ==
    IF ~config
    THEN [ret |-> FALSE, missing |-> {}]
    ELSE LET missing_files == {file \in walk(fs) : file \notin DOMAIN blobs}
         IN  [ret |-> missing_files # walk(fs) \/ walk(fs) = {}, missing |-> missing_files]

\* the check with its result negated
check_negated(fs) ==
    IF ~config
    THEN [ret |-> FALSE, missing |-> {}]
    ELSE LET missing_files == {file \in walk(fs) : file \notin DOMAIN blobs}
         IN  [ret |-> missing_files # {}, missing |-> missing_files]

\* ret: the value returned; missing: the paths printed as missing
check_dataset_exists(fs) ==
    IF ~config
    THEN [ret |-> FALSE, missing |-> {}]
    ELSE LET existing_blobs == DOMAIN blobs
             dataset_files == walk(fs)
             missing_files == {file \in dataset_files : file \notin existing_blobs}
         IN  [ret |-> missing_files = {}, missing |-> missing_files]

----------------------------------------------------------------------------
(* create_snapshot *)

\* f"snapshots/{dataset_name}/{snapshot_name}/metadata.json"
metadata_blob_name(dataset_name, snapshot_name) ==
    <<Name("snapshots"), dataset_name, snapshot_name, <<"metadata", "json">>>>

\* os.path.join(dataset_path, f"{snapshot_name}_metadata.json"), relative to dataset_path
local_metadata_file(snapshot_name) ==
    LET n == Len(snapshot_name)
    IN  << [i \in 1..(n + 1) |->
             IF i < n THEN snapshot_name[i]
             ELSE IF i = n THEN snapshot_name[n] \o "_metadata"
             ELSE "json"] >>

\* the images of one split, in the order of the listing
split_images(fs, split, listing) ==
    IF exists(fs, <<Name(split)>>) /\ isdir(fs, <<Name(split)>>)
    THEN SelectSeq(listing, LAMBDA file :
             endswith_png(file) /\ isfile(fs, <<Name(split), file>>))
    ELSE <<>>

\* the images of one split whose annotation file exists
split_annotated(fs, split, listing) ==
    SelectSeq(split_images(fs, split, listing), LAMBDA file :
        exists(fs, <<Name(split), replace_png_txt(file)>>))

\* snapshot_metadata after the scan; listing[split] is the os.listdir order
snapshot_metadata(fs, dataset_name, snapshot_name, now, listing) ==
    [snapshot_name |-> snapshot_name,
     created_at    |-> now,
     dataset_name  |-> dataset_name,
     description   |-> FolderName,
     data_splits   |-> [split \in SplitNames |->
                          LET imgs == split_images(fs, split, listing[split])
                          IN  [i \in 1..Len(imgs) |-> <<Name(split), imgs[i]>>]],
     annotations   |-> [split \in SplitNames |->
                          LET imgs == split_annotated(fs, split, listing[split])
                          IN  [i \in 1..Len(imgs) |-> <<Name(split), replace_png_txt(imgs[i])>>]]]

\* the listings os.listdir may return for the three split directories
Listings(fs) ==
    {[split \in SplitNames |->
         IF split = "train" THEN a ELSE IF split = "val" THEN b ELSE c] :
       a \in Orders(listdir(fs, "train")), b \in Orders(listdir(fs, "val")),
       c \in Orders(listdir(fs, "test"))}

\* the put with overwrite=False, its error swallowed by the except clause
upload_no_overwrite(store, name, content) ==
    IF name \in DOMAIN store THEN store ELSE MapPut(store, name, content)

\* blob_client.upload_blob(metadata_file, overwrite=True)
upload_metadata(store, name, content) == MapPut(store, name, content)

\* what one run leaves to observe: its inputs, how it ended, what the existence
\* check returned and printed, and whether its put replaced an existing blob
create_out(dataset_name, snapshot_name, status, chk, overwrote) ==
    [op |-> "create_snapshot", dataset_name |-> dataset_name,
     snapshot_name |-> snapshot_name, status |-> status,
     exists |-> chk.ret, missing |-> chk.missing, overwrote |-> overwrote]

\* the whole command, run by the only process using the directory
create_snapshot(dataset_name, snapshot_name) ==
    LET chk == check_dataset_exists(local)
        none == [ret |-> FALSE, missing |-> {}]
    IN
    /\ UNCHANGED <<config, dest, pc, cs>>
    /\ IF dataset_name = EmptyName
       THEN /\ out' = create_out(dataset_name, snapshot_name, "empty_name", none, FALSE)
            /\ UNCHANGED <<blobs, local, clock>>
       ELSE IF chk.ret
       THEN /\ out' = create_out(dataset_name, snapshot_name, "exists", chk, FALSE)
            /\ UNCHANGED <<blobs, local, clock>>
       ELSE IF ~config
       THEN /\ out' = create_out(dataset_name, snapshot_name, "config_missing", chk, FALSE)
            /\ UNCHANGED <<blobs, local, clock>>
       ELSE /\ clock < MaxClock
            /\ clock' = clock + 1
            /\ \E listing \in Listings(local) :
                 LET meta == snapshot_metadata(local, dataset_name, snapshot_name,
                                               clock + 1, listing)
                     file == local_metadata_file(snapshot_name)
                 IN  local' = MapPut(local, file, json_dump(meta))
            /\ \E uploaded \in BOOLEAN :
                 IF uploaded
                 THEN /\ blobs' = upload_metadata(blobs,
                                     metadata_blob_name(dataset_name, snapshot_name),
                                     local'[local_metadata_file(snapshot_name)])
                      /\ out' = create_out(dataset_name, snapshot_name, "uploaded", chk,
                                    metadata_blob_name(dataset_name, snapshot_name) \in DOMAIN blobs)
                 ELSE /\ blobs' = blobs
                      /\ out' = create_out(dataset_name, snapshot_name, "upload_failed", chk, FALSE)

----------------------------------------------------------------------------
(* create_snapshot, statement by statement, for callers that run concurrently *)

\* lines 264-278: the prompt, the existence check, the configuration
cs_start(p) ==
    LET chk == check_dataset_exists(local)
        none == [ret |-> FALSE, missing |-> {}]
        result(status, c) == [proc |-> p, out |-> create_out(cs[p].dataset_name,
                                  cs[p].snapshot_name, status, c, FALSE)]
    IN
    /\ pc[p] = "start"
    /\ UNCHANGED <<config, blobs, local, dest, clock, cs>>
    /\ IF cs[p].dataset_name = EmptyName
       THEN /\ pc' = [pc EXCEPT ![p] = "done"]
            /\ out' = result("empty_name", none)
       ELSE IF chk.ret
       THEN /\ pc' = [pc EXCEPT ![p] = "done"]
            /\ out' = result("exists", chk)
       ELSE IF ~config
       THEN /\ pc' = [pc EXCEPT ![p] = "done"]
            /\ out' = result("config_missing", chk)
       ELSE /\ pc' = [pc EXCEPT ![p] = "scan"]
            /\ out' = out

\* lines 281-312: the manifest is built in memory
cs_scan(p) ==
    /\ pc[p] = "scan"
    /\ clock < MaxClock
    /\ clock' = clock + 1
    /\ \E listing \in Listings(local) :
         cs' = [cs EXCEPT ![p].meta = snapshot_metadata(local, cs[p].dataset_name,
                                          cs[p].snapshot_name, clock + 1, listing)]
    /\ pc' = [pc EXCEPT ![p] = "open"]
    /\ UNCHANGED <<config, blobs, local, dest, out>>

\* line 316: open(local_metadata_file, "w") truncates the file
cs_open(p) ==
    /\ pc[p] = "open"
    /\ local' = MapPut(local, local_metadata_file(cs[p].snapshot_name), EmptyContent)
    /\ pc' = [pc EXCEPT ![p] = "dump"]
    /\ UNCHANGED <<config, blobs, dest, clock, out, cs>>

\* line 317 and the end of the with block: the buffered text reaches the file
cs_dump(p) ==
    /\ pc[p] = "dump"
    /\ local' = MapPut(local, local_metadata_file(cs[p].snapshot_name), json_dump(cs[p].meta))
    /\ pc' = [pc EXCEPT ![p] = "upload"]
    /\ UNCHANGED <<config, blobs, dest, clock, out, cs>>

\* lines 327-332: the file is read back and put in the container
cs_upload(p) ==
    LET name == metadata_blob_name(cs[p].dataset_name, cs[p].snapshot_name)
        result(status) == [proc |-> p, out |-> create_out(cs[p].dataset_name,
                               cs[p].snapshot_name, status, [ret |-> FALSE, missing |-> {}],
                               status = "uploaded" /\ name \in DOMAIN blobs)]
    IN
    /\ pc[p] = "upload"
    /\ pc' = [pc EXCEPT ![p] = "done"]
    /\ UNCHANGED <<config, local, dest, clock, cs>>
    /\ \/ /\ blobs' = upload_metadata(blobs, name,
                           local[local_metadata_file(cs[p].snapshot_name)])
          /\ out' = result("uploaded")
       \/ /\ blobs' = blobs
          /\ out' = result("upload_failed")

----------------------------------------------------------------------------
(* set_connection_string *)

set_connection_string ==
    /\ UNCHANGED <<blobs, local, dest, clock, pc, cs>>
    /\ \/ /\ config' = config
          /\ out' = [op |-> "set_connection_string", status |-> "invalid"]
       \/ /\ config' = TRUE
          /\ out' = [op |-> "set_connection_string", status |-> "set"]

----------------------------------------------------------------------------
(* upload_folder_to_blob *)

\* the folders given to the command: the dataset directory or one of its splits
UploadFolders == {<<>>} \cup {<<Name(s)>> : s \in SplitNames}

\* os.path.basename(os.path.normpath(folder_path))
folder_name_of(folder) == IF folder = <<>> THEN FolderName ELSE basename(folder)

\* os.path.join(folder_name, os.path.relpath(file_path, folder_path))
upload_blob_name(folder, path) == <<folder_name_of(folder)>> \o relpath(path, folder)

upload_folder_to_blob(folder) ==
    /\ UNCHANGED <<config, local, dest, clock, pc, cs>>
    /\ IF ~config
       THEN /\ blobs' = blobs
            /\ out' = [op |-> "upload_folder_to_blob", folder |-> folder,
                       status |-> "config_missing"]
       ELSE LET files == {p \in DOMAIN local : Under(folder, p)}
            IN  \E failed \in {f \in SUBSET files : Cardinality(f) <= MaxUploadFailures} :
                  /\ blobs' = MapMerge(blobs,
                                 [k \in {upload_blob_name(folder, p) : p \in files \ failed} |->
                                    local[folder \o relpath(k, <<folder_name_of(folder)>>)]])
                  /\ out' = [op |-> "upload_folder_to_blob", folder |-> folder,
                             status |-> IF failed = {} THEN "done" ELSE "partial"]

----------------------------------------------------------------------------
(* list_snapshots *)

\* the order of sorted() on the names that can follow "snapshots/"
NameOrder == <<Name("foo"), Name("v1")>>

RECURSIVE sorted_from(_, _)
sorted_from(S, i) ==
    IF i > Len(NameOrder) THEN <<>>
    ELSE (IF NameOrder[i] \in S THEN <<NameOrder[i]>> ELSE <<>>) \o sorted_from(S, i + 1)

\* sorted(snapshots)
sorted(S) == sorted_from(S, 1)

\* the lines printed after "Snapshots:"
snapshot_listing(store) ==
    LET names == {k \in DOMAIN store : Under(<<Name("snapshots")>>, k)}
        snapshots == {parts[2] : parts \in {k \in names : Len(k) > 1}}
    IN  sorted(snapshots)

list_snapshots ==
    /\ UNCHANGED <<config, blobs, local, dest, clock, pc, cs>>
    /\ IF ~config
       THEN out' = [op |-> "list_snapshots", status |-> "config_missing", listing |-> <<>>]
       ELSE out' = [op |-> "list_snapshots", status |-> "listed",
                    listing |-> snapshot_listing(blobs)]

----------------------------------------------------------------------------
(* delete_snapshot *)

\* f"snapshots/{snapshot_name}/"
snapshot_prefix(snapshot_name) == <<Name("snapshots"), snapshot_name>>

delete_snapshot(snapshot_name) ==
    /\ UNCHANGED <<config, local, dest, clock, pc, cs>>
    /\ IF ~config
       THEN /\ blobs' = blobs
            /\ out' = [op |-> "delete_snapshot", snapshot_name |-> snapshot_name,
                       status |-> "config_missing"]
       ELSE LET listed == list_blobs(snapshot_prefix(snapshot_name))
            IN  \E gone \in SUBSET listed :
                  /\ blobs' = MapDrop(blobs, gone)
                  /\ out' = [op |-> "delete_snapshot", snapshot_name |-> snapshot_name,
                             status |-> IF gone = listed THEN "deleted" ELSE "raised"]

----------------------------------------------------------------------------
(* recreate_dataset *)

\* an empty destination directory
EmptyDest == [dirs |-> {}, files |-> EmptyMap]

\* the dictionaries the comprehension over list_blobs can build for the
\* base names in keys: the name enumerated last wins
RECURSIVE blob_dicts(_, _)
blob_dicts(keys, names) ==
    IF keys = {} THEN {EmptyMap}
    ELSE LET k == CHOOSE x \in keys : TRUE
         IN  {MapPut(d, k, n) : d \in blob_dicts(keys \ {k}, names),
                                n \in {x \in names : basename(x) = k}}

\* the (split, path) pairs one of the two loops visits, in its order
RECURSIVE section_entries(_, _, _)
section_entries(meta, section, i) ==
    IF i > Len(Splits) THEN <<>>
    ELSE LET files == meta[section][Splits[i]]
         IN  [j \in 1..Len(files) |-> [section |-> section, split |-> Splits[i], file |-> files[j]]]
             \o section_entries(meta, section, i + 1)

\* the data_splits loop, then the annotations loop
manifest_entries(meta) ==
    section_entries(meta, "data_splits", 1) \o section_entries(meta, "annotations", 1)

\* what a try block of the loops may do
Outcomes == {"ok", "open_failed", "download_failed"}

\* what the try blocks of one run may do: entries[i] with a matched blob fails as
\* outcomes[i] says, the others have no try block to fail in
try_outcomes(entries, blob_dict) ==
    LET matched == {i \in 1..Len(entries) : basename(entries[i].file) \in DOMAIN blob_dict}
        failing == {s \in SUBSET matched : Cardinality(s) <= MaxDownloadFailures}
    IN  UNION {{[i \in 1..Len(entries) |-> IF i \in s THEN how[i] ELSE "ok"] :
                   how \in [s -> Outcomes \ {"ok"}]} : s \in failing}

\* the body with the file written next to the split directories, not in one
download_entry_flat(e, dataset_name, blob_dict, outcome, acc) ==
    LET file_name == basename(e.file)
        logged(result) == Append(acc.log, [section |-> e.section, split |-> e.split,
                                           file |-> e.file, result |-> result])
    IN  IF file_name \in DOMAIN blob_dict
        THEN IF outcome = "open_failed"
             THEN [files |-> acc.files, log |-> logged("failed")]
             ELSE IF outcome = "download_failed"
             THEN [files |-> MapPut(acc.files, <<dataset_name, file_name>>, EmptyContent),
                   log |-> logged("failed")]
             ELSE [files |-> MapPut(acc.files, <<dataset_name, file_name>>,
                                    blobs[blob_dict[file_name]]),
                   log |-> logged("downloaded")]
        ELSE [files |-> acc.files, log |-> logged("warning")]

\* the body of either loop for entry e: find_blob, open, download, write
download_entry(e, dataset_name, blob_dict, outcome, acc) ==
    LET file_name == basename(e.file)
        logged(result) == Append(acc.log, [section |-> e.section, split |-> e.split,
                                           file |-> e.file, result |-> result])
    IN  IF file_name \in DOMAIN blob_dict
        THEN LET matched_blob == blob_dict[file_name]
                 local_file_path == <<dataset_name, Name(e.split), file_name>>
             IN  IF outcome = "open_failed"
                 THEN [files |-> acc.files, log |-> logged("failed")]
                 ELSE IF outcome = "download_failed"
                 THEN [files |-> MapPut(acc.files, local_file_path, EmptyContent),
                       log |-> logged("failed")]
                 ELSE [files |-> MapPut(acc.files, local_file_path, blobs[matched_blob]),
                       log |-> logged("downloaded")]
        ELSE [files |-> acc.files, log |-> logged("warning")]

\* both loops without the except clauses: the first failure ends the run
RECURSIVE download_until_failure(_, _, _, _, _, _)
download_until_failure(entries, i, dataset_name, blob_dict, outcomes, acc) ==
    IF i > Len(entries) THEN acc
    ELSE LET next == download_entry(entries[i], dataset_name, blob_dict, outcomes[i], acc)
         IN  IF next.log[Len(next.log)].result = "failed"
             THEN next
             ELSE download_until_failure(entries, i + 1, dataset_name, blob_dict, outcomes, next)

\* both loops, from entry i on
RECURSIVE download_entries(_, _, _, _, _, _)
download_entries(entries, i, dataset_name, blob_dict, outcomes, acc) ==
    IF i > Len(entries) THEN acc
    ELSE download_entries(entries, i + 1, dataset_name, blob_dict, outcomes,
             download_entry(entries[i], dataset_name, blob_dict, outcomes[i], acc))

\* lines 188-193: the manifest blob is there and its text parses
metadata_fetchable(typed_name, snapshot_name) ==
    LET name == metadata_blob_name(typed_name, snapshot_name)
    IN  name \in DOMAIN blobs /\ json_ok(blobs[name])

recreate_out(snapshot_name, dataset_name, status, log) ==
    [op |-> "recreate_dataset", snapshot_name |-> snapshot_name,
     dataset_name |-> dataset_name, status |-> status, log |-> log]

recreate_dataset(snapshot_name, typed_name) ==
    /\ UNCHANGED <<config, blobs, local, clock, pc, cs>>
    /\ IF ~config
       THEN /\ out' = recreate_out(snapshot_name, typed_name, "config_missing", <<>>)
            /\ dest' = dest
       ELSE IF typed_name = EmptyName
       THEN /\ out' = recreate_out(snapshot_name, typed_name, "empty_name", <<>>)
            /\ dest' = dest
       ELSE LET name == metadata_blob_name(typed_name, snapshot_name) IN
            \/ /\ out' = recreate_out(snapshot_name, typed_name, "metadata_failed", <<>>)
               /\ dest' = dest
            \/ /\ metadata_fetchable(typed_name, snapshot_name)
               /\ LET meta == json_loads(blobs[name])
                      dataset_name == meta.dataset_name
                      names == list_blobs(<<dataset_name>>)
                      entries == manifest_entries(meta)
                      made == dest.dirs \cup {<<dataset_name>>}
                                  \cup {<<dataset_name, Name(s)>> : s \in SplitNames}
                  IN  IF dataset_name = EmptyName
                      THEN /\ out' = recreate_out(snapshot_name, typed_name, "no_dataset_name", <<>>)
                           /\ dest' = dest
                      ELSE \E blob_dict \in blob_dicts({basename(n) : n \in names}, names) :
                           \E outcomes \in try_outcomes(entries, blob_dict) :
                             /\ LET r == download_entries(entries, 1, dataset_name, blob_dict,
                                             outcomes, [files |-> dest.files, log |-> <<>>])
                                IN  /\ dest' = [dirs |-> made, files |-> r.files]
                                    /\ out' = recreate_out(snapshot_name, typed_name, "done", r.log)

----------------------------------------------------------------------------
(* The sessions *)

Procs == {1, 2}

NoMeta == [created_at |-> 0]

NoLocals == [dataset_name |-> EmptyName, snapshot_name |-> EmptyName, meta |-> NoMeta]

Init ==
    /\ config = FALSE
    /\ blobs = EmptyMap
    /\ local \in {[p \in files |-> DataOf(p)] : files \in {{}, StoredFiles}}
    /\ dest = EmptyDest
    /\ clock = 0
    /\ out = [op |-> "none"]
    /\ pc = [p \in Procs |-> "idle"]
    /\ cs = [p \in Procs |-> NoLocals]

Next ==
    \/ set_connection_string
    \/ \E folder \in UploadFolders : upload_folder_to_blob(folder)
    \/ \E dataset_name \in DatasetNames \cup {EmptyName}, snapshot_name \in SnapshotNames :
          create_snapshot(dataset_name, snapshot_name)
    \/ list_snapshots
    \/ \E snapshot_name \in SnapshotNames : delete_snapshot(snapshot_name)

Spec == Init /\ [][Next]_vars

\* a session that uploads the dataset directory, snapshots it and recreates it
InitRecreate ==
    /\ config = TRUE
    /\ blobs = EmptyMap
    /\ local = [p \in LocalFiles |-> DataOf(p)]
    /\ dest = EmptyDest
    /\ clock = 0
    /\ out = [op |-> "none"]
    /\ pc = [p \in Procs |-> "idle"]
    /\ cs = [p \in Procs |-> NoLocals]

NextRecreate ==
    \/ upload_folder_to_blob(<<>>)
    \/ create_snapshot(FolderName, Name("v1"))
    \/ \E snapshot_name \in SnapshotNames, typed_name \in DatasetNames \cup {EmptyName} :
          recreate_dataset(snapshot_name, typed_name)

SpecRecreate == InitRecreate /\ [][NextRecreate]_vars

\* a session that snapshots one scanned directory
NoPathBelowAFile(files) ==
    \A p \in files, q \in files : ~Under(p, q)

InitBuild ==
    /\ config = TRUE
    /\ blobs = EmptyMap
    /\ local \in {[p \in files |-> DataOf(p)] :
                    files \in {f \in SUBSET ScanFiles :
                                  Cardinality(f) <= MaxScanFiles /\ NoPathBelowAFile(f)}}
    /\ dest = EmptyDest
    /\ clock = 0
    /\ out = [op |-> "none"]
    /\ pc = [p \in Procs |-> "idle"]
    /\ cs = [p \in Procs |-> NoLocals]

NextBuild ==
    \E dataset_name \in DatasetNames \cup {EmptyName} :
        create_snapshot(dataset_name, Name("v1"))

SpecBuild == InitBuild /\ [][NextBuild]_vars

\* two callers of create_snapshot with the same dataset directory, dataset name
\* and snapshot name
InitConc ==
    /\ config = TRUE
    /\ blobs = EmptyMap
    /\ local \in {[p \in files |-> DataOf(p)] : files \in {{}, LocalFiles}}
    /\ dest = EmptyDest
    /\ clock = 0
    /\ out = [op |-> "none"]
    /\ pc = [p \in Procs |-> "start"]
    /\ \E dataset_name \in DatasetNames, snapshot_name \in SnapshotNames :
         cs = [p \in Procs |-> [dataset_name |-> dataset_name,
                                 snapshot_name |-> snapshot_name, meta |-> NoMeta]]

NextConc ==
    \E p \in Procs :
        \/ cs_start(p)
        \/ cs_scan(p)
        \/ cs_open(p)
        \/ cs_dump(p)
        \/ cs_upload(p)

SpecConc == InitConc /\ [][NextConc]_vars

----------------------------------------------------------------------------
(* Properties *)

\* the blobs below snapshots/dataset_name/snapshot_name/ in store
snapshot_objects(store, dataset_name, snapshot_name) ==
    {k \in DOMAIN store : Under(<<Name("snapshots"), dataset_name, snapshot_name>>, k)}

\* C1: once delete_snapshot has run to completion for snapshot s, no object is left
\* under snapshots/d/s/ for any dataset d, and the manifest of (d, s) cannot be
\* fetched any more.
C1_DeleteRemovesSnapshot ==
    (out.op = "delete_snapshot" /\ out.status = "deleted") =>
        \A d \in DatasetNames :
            /\ snapshot_objects(blobs, d, out.snapshot_name) = {}
            /\ ~metadata_fetchable(d, out.snapshot_name)

\* every file of the dataset directory is in the container under the name
\* upload_folder_to_blob gives it, with the file's content
dataset_uploaded ==
    /\ config
    /\ \A p \in DOMAIN local :
          /\ upload_blob_name(<<>>, p) \in DOMAIN blobs
          /\ blobs[upload_blob_name(<<>>, p)] = local[p]

\* C2: when upload_folder_to_blob has put every file of the dataset directory in the
\* container and none was deleted, create_snapshot is stopped by the existence check
\* and puts no manifest in the container.
C2_UploadedDatasetBlocksCreate ==
    [][(dataset_uploaded /\ out'.op = "create_snapshot" /\ out'.dataset_name # EmptyName)
          => (out'.status = "exists" /\ blobs' = blobs)]_vars

\* the files that may be added to the dataset directory
NewFiles == ScanFiles \cup {upload_blob_name(<<>>, p) : p \in StoredFiles}

\* the subset test of C3, and the effect of adding one of the files of candidates
exists_iff_subset(candidates) ==
    (out'.op = "create_snapshot" /\ out'.dataset_name # EmptyName /\ config) =>
        /\ out'.exists <=> (DOMAIN local \subseteq DOMAIN blobs)
        /\ out'.missing = DOMAIN local \ DOMAIN blobs
        /\ out'.exists =>
              \A f \in candidates \ DOMAIN local :
                  LET again == check_dataset_exists(MapPut(local, f, DataOf(f)))
                  IN  ~again.ret /\ f \in again.missing

\* C3, as claimed: with the connection configured, check_dataset_exists returns
\* true iff every relative path of the dataset directory is a blob name, and from a
\* state where it returns true adding any one new file makes it return false with
\* that file in the missing list.
C3_AnyNewFileFlips == [][exists_iff_subset(NewFiles)]_vars

\* C3, amended: with the connection configured, check_dataset_exists returns true
\* iff every relative path of the dataset directory is a blob name, and from a state
\* where it returns true adding one new file whose relative path is not a blob name
\* makes it return false with that file in the missing list.
C3_ExistsIffSubset == [][exists_iff_subset(NewFiles \ DOMAIN blobs)]_vars

\* the check has returned true for a directory with files while the container also
\* holds a name that a new file of the directory could take
C3_Witness ==
    /\ out.op = "create_snapshot"
    /\ out.exists
    /\ DOMAIN local # {}
    /\ (NewFiles \cap DOMAIN blobs) \ DOMAIN local # {}
    /\ NewFiles \ (DOMAIN blobs \cup DOMAIN local) # {}

\* the number of lines of listing that show name
entries_for(listing, name) == Cardinality({i \in DOMAIN listing : listing[i] = name})

snapshot_pairs(store) ==
    {<<k[2], k[3]>> : k \in {n \in DOMAIN store : Under(<<Name("snapshots")>>, n) /\ Len(n) >= 3}}

\* C5: list_snapshots shows one entry for each distinct (dataset, snapshot) pair with
\* an object below snapshots/, two snapshots of one dataset giving two entries, and
\* changes nothing in the container.
C5_ListShowsPairs ==
    [][(out'.op = "list_snapshots" /\ out'.status = "listed") =>
          /\ Len(out'.listing) = Cardinality(snapshot_pairs(blobs))
          /\ blobs' = blobs]_vars

\* the names of the image files directly inside the split directory of fs
image_files(fs, split) ==
    {q[2] : q \in {k \in DOMAIN fs : /\ Len(k) = 2
                                      /\ k[1] = Name(split)
                                      /\ Len(k[2]) >= 2
                                      /\ k[2][Len(k[2])] = "png"}}

\* the annotation file name of an image: its extension replaced by txt
annotation_name(image) == SubSeq(image, 1, Len(image) - 1) \o <<"txt">>

\* the images of the split whose annotation file is in the same directory
annotated_images(fs, split) ==
    {f \in image_files(fs, split) : <<Name(split), annotation_name(f)>> \in DOMAIN fs}

elements(s) == {s[i] : i \in DOMAIN s}

\* C6: the manifest create_snapshot builds lists, for each split, each image file
\* directly inside the split directory once, split-prefixed, and the annotation file
\* of each image that has one in the same directory once; images without one are
\* skipped and other files ignored, so there are no more annotations than images.
C6_ManifestMatchesDirectory ==
    (out.op = "create_snapshot" /\ out.status \in {"uploaded", "upload_failed"}) =>
        LET meta == json_loads(local[local_metadata_file(out.snapshot_name)])
        IN  \A split \in SplitNames :
              /\ Len(meta.data_splits[split]) = Cardinality(image_files(local, split))
              /\ elements(meta.data_splits[split])
                    = {<<Name(split), f>> : f \in image_files(local, split)}
              /\ Len(meta.annotations[split]) = Cardinality(annotated_images(local, split))
              /\ elements(meta.annotations[split])
                    = {<<Name(split), annotation_name(f)>> : f \in annotated_images(local, split)}
              /\ Len(meta.annotations[split]) <= Len(meta.data_splits[split])

\* the base names of the blobs below dataset_name/
index_names(store, dataset_name) ==
    {basename(k) : k \in {n \in DOMAIN store : Under(<<dataset_name>>, n)}}

\* the log has a line with one of results for the manifest entry path of section
logged(log, section, path, results) ==
    \E i \in DOMAIN log :
        log[i].section = section /\ log[i].file = path /\ log[i].result \in results

\* the destination d holds, in the split directory the manifest entry path names,
\* a file with the entry's base name and the content of a blob of that base name
populated(d, store, dataset_name, path) ==
    LET at == <<dataset_name, path[1], basename(path)>>
    IN  /\ at \in DOMAIN d.files
        /\ \E n \in DOMAIN store :
              /\ Under(<<dataset_name>>, n)
              /\ basename(n) = basename(path)
              /\ d.files[at] = store[n]

\* the round trip of C7 for a run into an empty destination; with on_success, only
\* the entries the run reports as downloaded must be populated
round_trip(on_success) ==
    (dest = EmptyDest /\ out'.op = "recreate_dataset" /\ out'.status = "done") =>
        LET meta == json_loads(blobs[metadata_blob_name(out'.dataset_name, out'.snapshot_name)])
        IN  \A section \in {"data_splits", "annotations"}, split \in SplitNames :
              \A i \in DOMAIN meta[section][split] :
                LET path == meta[section][split][i]
                IN  /\ path[1] = Name(split)
                    /\ IF basename(path) \in index_names(blobs, meta.dataset_name)
                       THEN /\ logged(out'.log, section, path, {"downloaded", "failed"})
                            /\ (on_success => logged(out'.log, section, path, {"downloaded"}))
                                  => populated(dest', blobs, meta.dataset_name, path)
                       ELSE logged(out'.log, section, path, {"warning"})

\* C7, as claimed: after recreate_dataset into an empty destination, every manifest
\* entry whose base name is in the index of the dataset's blobs is populated at
\* destination/dataset_name/split/filename with the split it had in the directory,
\* and every entry whose base name is not in the index has a warning.
C7_EveryIndexedEntryPopulated == [][round_trip(FALSE)]_vars

\* C7, amended: the same for every entry whose base name is in the index and whose
\* download the run reports as done; an entry whose open or download raises is
\* reported as failed and is not populated.
C7_RoundTrip == [][round_trip(TRUE)]_vars

\* a run into an empty destination has downloaded one entry and warned about another
C7_Witness ==
    /\ out.op = "recreate_dataset"
    /\ out.status = "done"
    /\ \E i \in DOMAIN out.log : out.log[i].result = "downloaded"
    /\ \E i \in DOMAIN out.log : out.log[i].result = "warning"
    /\ \A at \in DOMAIN dest.files :
          \E i \in DOMAIN out.log :
              /\ out.log[i].result \in {"downloaded", "failed"}
              /\ at = <<out.dataset_name, Name(out.log[i].split), basename(out.log[i].file)>>

\* C8, as claimed: create_snapshot changes neither the dataset directory nor the
\* container when the dataset name is empty or the existence check finds missing
\* files.
C8_AbortsOnMissingFiles ==
    [][(out'.op = "create_snapshot"
          /\ (out'.dataset_name = EmptyName
                \/ (config /\ ~(DOMAIN local \subseteq DOMAIN blobs))))
        => (local' = local /\ blobs' = blobs)]_vars

\* C8, amended: create_snapshot changes neither the dataset directory nor the
\* container when the dataset name is empty or the existence check finds no missing
\* file; when it finds missing files the manifest file is written.
C8_AbortsOnValidationFailure ==
    [][(out'.op = "create_snapshot") =>
          /\ (out'.dataset_name = EmptyName \/ (config /\ DOMAIN local \subseteq DOMAIN blobs))
                => (local' = local /\ blobs' = blobs)
          /\ (out'.dataset_name # EmptyName /\ config /\ ~(DOMAIN local \subseteq DOMAIN blobs))
                => /\ local_metadata_file(out'.snapshot_name) \in DOMAIN local'
                   /\ local'[local_metadata_file(out'.snapshot_name)] # EmptyContent]_vars

\* create_snapshot was stopped by the existence check for a directory with files
C8_Witness ==
    /\ out.op = "create_snapshot"
    /\ out.status = "exists"
    /\ out.dataset_name # EmptyName
    /\ DOMAIN local # {}
    /\ DOMAIN local \subseteq DOMAIN blobs

\* the number of entries of the two sections of a manifest
total_entries(meta) ==
    LET count(section) == Len(meta[section]["train"]) + Len(meta[section]["val"])
                            + Len(meta[section]["test"])
    IN  count("data_splits") + count("annotations")

\* C9: once recreate_dataset has fetched the manifest it reaches its summary, and
\* its log has one line per manifest entry: a warning for an entry whose base name
\* is not in the index, a download or a failure for the others, whatever failed
\* before.
C9_BestEffort ==
    (out.op = "recreate_dataset"
       /\ out.status \notin {"config_missing", "empty_name", "metadata_failed"}) =>
        LET meta == json_loads(blobs[metadata_blob_name(out.dataset_name, out.snapshot_name)])
        IN  /\ out.status = "done"
            /\ Len(out.log) = total_entries(meta)
            /\ \A section \in {"data_splits", "annotations"}, split \in SplitNames :
                  \A i \in DOMAIN meta[section][split] :
                    LET path == meta[section][split][i]
                    IN  IF basename(path) \in index_names(blobs, meta.dataset_name)
                        THEN logged(out.log, section, path, {"downloaded", "failed"})
                        ELSE logged(out.log, section, path, {"warning"})

\* a run went on to download an entry after the download of an earlier one failed
C9_Witness ==
    /\ out.op = "recreate_dataset"
    /\ out.status = "done"
    /\ \E i, j \in DOMAIN out.log :
          i < j /\ out.log[i].result = "failed" /\ out.log[j].result = "downloaded"

\* C10: when two concurrent create_snapshot calls for the same dataset and snapshot
\* names have ended and the last of them put its manifest, the pair has exactly one
\* object and it is the whole manifest that caller built.
C10_LastWriterWins ==
    ((\A p \in Procs : pc[p] = "done") /\ out.out.status = "uploaded") =>
        LET name == metadata_blob_name(out.out.dataset_name, out.out.snapshot_name)
        IN  /\ snapshot_objects(blobs, out.out.dataset_name, out.out.snapshot_name) = {name}
            /\ blobs[name] = json_dump(cs[out.proc].meta)

\* the manifests of the pairs (d, s) with s other than snapshot_name
other_manifests(store, snapshot_name) ==
    {k \in DOMAIN store :
        \E d \in DatasetNames, s \in SnapshotNames \ {snapshot_name} :
            k = metadata_blob_name(d, s)}

\* C11: delete_snapshot(s) leaves the manifest object of every stored pair (d, s')
\* with s' other than s as it was, also when s is the name of a dataset.
C11_DeleteLeavesOtherSnapshots ==
    [][(out'.op = "delete_snapshot") =>
          \A k \in other_manifests(blobs, out'.snapshot_name) :
              k \in DOMAIN blobs' /\ blobs'[k] = blobs[k]]_vars

\* the place in the destination the log line l is about
destination_path(dataset_name, l) == <<dataset_name, Name(l.split), basename(l.file)>>

\* C12: after recreate_dataset into an empty destination, every file of the
\* destination is the file of a manifest entry whose download succeeded, and an
\* entry whose download failed has no file, empty or cut short, at its place.
C12_NoFileWithoutDownload ==
    [][(dest = EmptyDest /\ out'.op = "recreate_dataset" /\ out'.status = "done") =>
          LET meta == json_loads(blobs[metadata_blob_name(out'.dataset_name, out'.snapshot_name)])
              place(i) == destination_path(meta.dataset_name, out'.log[i])
          IN  /\ \A at \in DOMAIN dest'.files :
                    \E i \in DOMAIN out'.log :
                        out'.log[i].result = "downloaded" /\ at = place(i)
              /\ \A i \in DOMAIN out'.log :
                    out'.log[i].result = "failed" => place(i) \notin DOMAIN dest'.files]_vars

====
